---------------------------- MODULE Spec2Model ----------------------------
(***************************************************************************)
(* Model of src/app.py, the eThekwini WS-7761 dashboard: a Streamlit       *)
(* script that is re-run top to bottom on every interaction.  One run      *)
(* loads the Tasks workbook through a cache keyed by (path, mtime), cleans *)
(* the Tasks sheet, and renders the KPI, Task Breakdown, Timeline and      *)
(* Export Report tabs.                                                     *)
(*                                                                         *)
(* Text is modelled as a tuple of one-character strings so that lower(),   *)
(* strip() and the substring test are computed, not assumed.  A cell of a  *)
(* table is a record [k, d, s]: k = "na" (NaN/NaT), k = "date" with the    *)
(* instant d, or k = "str" with the text s.  Instants (due dates, the      *)
(* clock, modification times) are integers on one time line.               *)
(***************************************************************************)
EXTENDS Integers, Sequences, FiniteSets, TLC

VARIABLES
    fileKind,    \* the data workbook on disk: "missing", "corrupt" or "ok"
    fileBook,    \* its content when it opens: [names, data]
    fileMtime,   \* os.path.getmtime of the data workbook
    clock,       \* the wall clock
    cache,       \* st.cache_data of load_data: last_modified -> returned mapping
    run,         \* "idle" before the first run, then "rendered" or "crashed"
    exc,         \* where an exception escaped the last run ("none" if nowhere)
    bodyRan,     \* the last run executed the body of load_data (a cache miss)
    sheets,      \* the mapping load_data returned to the last run
    df_main,     \* the cleaned Tasks table of the last run
    kpi,         \* what the KPI tab computed and showed
    insights,    \* the Additional Insights expander of the KPI tab
    html,        \* the Task Breakdown table: its row colours and the clock it read
    pdf,         \* the KPI table of the PDF report and the download button
    messages,    \* the st.warning / st.info texts shown
    gaugeIn,     \* arguments of a gauge call
    gaugeOut,    \* the percentage the gauge call computed
    raw_install, \* the installations sheet as read_excel returns it (line 227)
    installRun,  \* "idle", then "rendered" or "crashed": the installations part
    colmap,      \* the colmap load_install_data built
    df_install,  \* the cleaned installations table
    summary_main,       \* compute_install_summary(df_install)
    contractor_gauges   \* the gauges drawn from summary_main

vars == <<fileKind, fileBook, fileMtime, clock, cache, run, exc, bodyRan,
          sheets, df_main, kpi, insights, html, pdf, messages, gaugeIn,
          gaugeOut, raw_install, installRun, colmap, df_install,
          summary_main, contractor_gauges>>

fileVars == <<fileKind, fileBook, fileMtime>>
runVars == <<run, exc, bodyRan, sheets, df_main, kpi, insights, html, pdf,
            messages>>
gaugeVars == <<gaugeIn, gaugeOut>>
installVars == <<raw_install, installRun, colmap, df_install, summary_main,
                 contractor_gauges>>

---------------------------------------------------------------------------
(* Bounds of the model. *)

\* rows of a Tasks table whose statuses and due dates range over all inputs
MaxRows == 1
\* rows of a Tasks table whose set of columns ranges over all subsets
MaxColRows == 1
\* due and start dates are the instants 1..MaxDue
MaxDue == 1
\* the clock runs from 1 to MaxClock
MaxClock == 2
\* gauge totals range over 0..MaxTotal
MaxTotal == 9
\* columns of an installations sheet whose headers range over all choices
MaxHeaders == 3
\* rows of an installations sheet whose cells range over all inputs
MaxInstallRows == 2

---------------------------------------------------------------------------
(* Text. *)

UpperChars == <<"A","B","C","D","E","F","G","H","I","J","K","L","M",
                "N","O","P","Q","R","S","T","U","V","W","X","Y","Z">>
LowerChars == <<"a","b","c","d","e","f","g","h","i","j","k","l","m",
                "n","o","p","q","r","s","t","u","v","w","x","y","z">>

\* str.lower() on one character
LowerOf == [u \in {UpperChars[i] : i \in DOMAIN UpperChars} |->
               LowerChars[CHOOSE i \in DOMAIN UpperChars : UpperChars[i] = u]]

LowerChar(c) == IF c \in DOMAIN LowerOf THEN LowerOf[c] ELSE c

\* str.lower()
Lower(s) == [i \in DOMAIN s |-> LowerChar(s[i])]

\* str.strip()
RECURSIVE Strip(_)
Strip(s) ==
    IF s = <<>> THEN s
    ELSE IF Head(s) = " " THEN Strip(Tail(s))
    ELSE IF s[Len(s)] = " " THEN Strip(SubSeq(s, 1, Len(s) - 1))
    ELSE s

\* the Python test: sub in s
Contains(sub, s) ==
    \E i \in 0..(Len(s) - Len(sub)) : SubSeq(s, i + 1, i + Len(sub)) = sub

\* the literals of the program
StrCompleted == <<"c","o","m","p","l","e","t","e","d">>
StrInProgress == <<"i","n"," ","p","r","o","g","r","e","s","s">>
StrNotStarted == <<"n","o","t"," ","s","t","a","r","t","e","d">>
StrNull == <<"N","u","l","l">>
StrNaT == <<"N","a","T">>
StrDate == <<"d","a","t","e">>
ColProgress == <<"P","r","o","g","r","e","s","s">>
ColDueDate == <<"D","u","e"," ","d","a","t","e">>
ColStartDate == <<"S","t","a","r","t"," ","d","a","t","e">>
ColPriority == <<"P","r","i","o","r","i","t","y">>
ColBucketName == <<"B","u","c","k","e","t"," ","N","a","m","e">>
ColIsRecurring == <<"I","s"," ","R","e","c","u","r","r","i","n","g">>
ColLate == <<"L","a","t","e">>
SheetTasks == "Tasks"

\* table_colors and bg_color
ColorNotStarted == "#cce6ff"
ColorInProgress == "#ffeb99"
ColorCompleted == "#b3ffd9"
ColorOverdue == "#ffb3b3"
bg_color == "#ffffff"

MsgNoExport == "No data found to export."
MsgNoTimeline == "Timeline data not available."

---------------------------------------------------------------------------
(* Cells and tables. *)

NA == [k |-> "na", d |-> 0, s |-> <<>>]
DateCell(n) == [k |-> "date", d |-> n, s |-> <<>>]
StrCell(t) == [k |-> "str", d |-> 0, s |-> t]

\* pd.isna / pd.notna
IsNa(c) == c.k = "na"

\* pd.DataFrame()
EmptyFrame == [cols |-> {}, rows |-> <<>>]

\* DataFrame.empty: no column or no row
IsEmpty(df) == df.cols = {} \/ df.rows = <<>>

\* the empty dict
EmptyMap == [n \in {} |-> EmptyFrame]

---------------------------------------------------------------------------
(* The workbook loader (lines 157-172). *)

\* file_last_modified(path)
file_last_modified(kind, mtime) == IF kind # "missing" THEN mtime ELSE 0

\* pd.read_excel(xls, sheet_name=s): raises on a sheet that does not parse
ReadExcel(src) ==
    IF src.bad THEN [raised |-> TRUE, value |-> EmptyFrame]
    ELSE [raised |-> FALSE, value |-> src.table]

\* the body of the for loop: try / except Exception around one sheet
LoadSheet(src) ==
    LET r == ReadExcel(src)
    IN IF r.raised THEN EmptyFrame ELSE r.value

\* a loader whose try surrounds the whole loop: the first sheet that does not
\* parse ends the load
RECURSIVE ReadSheetsStopAtBad(_, _, _)
ReadSheetsStopAtBad(names, data, acc) ==
    IF names = <<>> THEN acc
    ELSE IF ReadExcel(data[Head(names)]).raised THEN acc
    ELSE ReadSheetsStopAtBad(Tail(names), data,
                             (Head(names) :> LoadSheet(data[Head(names)])) @@ acc)

\* for s in xls.sheet_names: sheets[s] = ...
RECURSIVE ReadSheets(_, _, _)
ReadSheets(names, data, acc) ==
    IF names = <<>> THEN acc
    ELSE ReadSheets(Tail(names), data,
                    (Head(names) :> LoadSheet(data[Head(names)])) @@ acc)

\* the body of load_data: pd.ExcelFile(path) is outside every try
LoadDataBody(kind, book) ==
    IF kind = "missing" THEN [raised |-> FALSE, value |-> EmptyMap]
    ELSE IF kind = "corrupt" THEN [raised |-> TRUE, value |-> EmptyMap]
    ELSE [raised |-> FALSE, value |-> ReadSheets(book.names, book.data, EmptyMap)]

\* @st.cache_data: the body runs only when (path, last_modified) is not cached,
\* and a call that raises stores nothing
load_data(kind, book, last_modified, store) ==
    IF last_modified \in DOMAIN store
    THEN [raised |-> FALSE, value |-> store[last_modified], miss |-> FALSE,
          store |-> store]
    ELSE LET r == LoadDataBody(kind, book)
         IN [raised |-> r.raised, value |-> r.value, miss |-> TRUE,
             store |-> IF r.raised THEN store
                       ELSE (last_modified :> r.value) @@ store]

\* sheets.get("Tasks", pd.DataFrame()).copy()
GetTasks(m) == IF SheetTasks \in DOMAIN m THEN m[SheetTasks] ELSE EmptyFrame

---------------------------------------------------------------------------
(* Cleaning (lines 269-275). *)

\* pd.to_datetime(x, errors="coerce") on one cell: the texts of the model
\* ("Null" and the statuses) are no dates
ToDatetime(c) == IF c.k = "date" THEN c ELSE NA

\* fillna("Null") followed by replace("NaT", "Null") on one cell
FillNull(c) ==
    IF IsNa(c) THEN StrCell(StrNull)
    ELSE IF c.k = "str" /\ c.s = StrNaT THEN StrCell(StrNull)
    ELSE c

\* "date" in col.lower()
IsDateCol(col) == Contains(StrDate, Lower(col))

CleanCell(col, c) == FillNull(IF IsDateCol(col) THEN ToDatetime(c) ELSE c)

\* if not df_main.empty: parse the date columns, fill the nulls, drop two columns
CleanData(df) ==
    IF IsEmpty(df) THEN df
    ELSE LET keep == df.cols \ {ColIsRecurring, ColLate}
         IN [cols |-> keep,
             rows |-> [i \in DOMAIN df.rows |->
                          [c \in keep |-> CleanCell(c, df.rows[i][c])]]]

---------------------------------------------------------------------------
(* Series operations used by the aggregator. *)

\* df.get(col, default)
GetCol(df, col, default) ==
    IF col \in df.cols THEN [i \in DOMAIN df.rows |-> df.rows[i][col]]
    ELSE default

\* Series.str.lower(): a cell that is no text gives NaN
StrLowerSeries(ser) ==
    [i \in DOMAIN ser |-> IF ser[i].k = "str" THEN StrCell(Lower(ser[i].s)) ELSE NA]

\* Series.eq(text)
EqSeries(ser, t) == [i \in DOMAIN ser |-> ser[i].k = "str" /\ ser[i].s = t]

\* pd.to_datetime(series, errors="coerce") < today: NaT compares False
BeforeSeries(ser, today) ==
    [i \in DOMAIN ser |-> LET d == ToDatetime(ser[i])
                          IN d.k = "date" /\ d.d < today]

\* ~mask
NotSeries(m) == [i \in DOMAIN m |-> ~m[i]]

\* a & b: the operands are aligned on the union of their indexes and a
\* label missing on one side counts as False
AndSeries(a, b) ==
    [i \in (DOMAIN a) \cup (DOMAIN b) |->
        (i \in DOMAIN a /\ a[i]) /\ (i \in DOMAIN b /\ b[i])]

\* mask.sum()
SumSeries(m) == Cardinality({i \in DOMAIN m : m[i]})

---------------------------------------------------------------------------
(* Gauges (lines 411-412 and 554-555).  A percentage value / total * 100   *)
(* is kept as the exact fraction num / den; err is ZeroDivisionError.      *)

Divide(value, total) ==
    IF total = 0 THEN [err |-> TRUE, num |-> 0, den |-> 1]
    ELSE [err |-> FALSE, num |-> value, den |-> total]

Times100(q) == [err |-> q.err, num |-> q.num * 100, den |-> q.den]

ZeroPct == [err |-> FALSE, num |-> 0, den |-> 1]

\* a gauge that divides without looking at total
create_colored_gauge_unguarded(value, total) == Times100(Divide(value, total))

\* pct = (value / total * 100) if total > 0 else 0
create_colored_gauge(value, total) ==
    IF total > 0 THEN Times100(Divide(value, total)) ELSE ZeroPct

\* pct = (completed / total * 100) if total and total > 0 else 0
make_contractor_gauge(completed, total) ==
    IF total # 0 /\ total > 0 THEN Times100(Divide(completed, total)) ELSE ZeroPct

---------------------------------------------------------------------------
(* KPI tab (lines 540-630). *)

NoKpi == [shown |-> FALSE, total |-> 0, completed |-> 0, inprogress |-> 0,
          notstarted |-> 0, overdue |-> 0, today |-> 0, gauges |-> <<>>]

\* df_main.get("Progress", pd.Series([""] * len(df_main)))
ProgressSeries(df) ==
    GetCol(df, ColProgress, [i \in DOMAIN df.rows |-> StrCell(<<>>)])

\* a comparison that forgets str.lower()
StatusMaskCaseSensitive(ser, t) == EqSeries(ser, t)

\* progress_series.str.lower().eq(text)
StatusMask(ser, t) == EqSeries(StrLowerSeries(ser), t)

\* an overdue test that forgets the status
OverdueMaskAnyStatus(df, ser, today) ==
    BeforeSeries(GetCol(df, ColDueDate, <<>>), today)

\* (to_datetime(df.get("Due date", pd.Series([]))) < today) & ~completed
OverdueMask(df, ser, today) ==
    AndSeries(BeforeSeries(GetCol(df, ColDueDate, <<>>), today),
              NotSeries(StatusMask(ser, StrCompleted)))

\* counts in which every row that is neither completed nor in progress is
\* taken as not started
KpiCountsRestNotStarted(df, today) ==
    LET ser == ProgressSeries(df)
        total == Len(df.rows)
        completed == SumSeries(StatusMask(ser, StrCompleted))
        inprogress == SumSeries(StatusMask(ser, StrInProgress))
        notstarted == total - completed - inprogress
        overdue == SumSeries(OverdueMask(df, ser, today))
    IN [shown |-> TRUE, total |-> total, completed |-> completed,
        inprogress |-> inprogress, notstarted |-> notstarted,
        overdue |-> overdue, today |-> today,
        gauges |-> <<create_colored_gauge(notstarted, total),
                     create_colored_gauge(inprogress, total),
                     create_colored_gauge(completed, total),
                     create_colored_gauge(overdue, total)>>]

\* counts in which every row that is not completed is taken as in progress
KpiCountsOpenInProgress(df, today) ==
    LET ser == ProgressSeries(df)
        total == Len(df.rows)
        completed == SumSeries(StatusMask(ser, StrCompleted))
        inprogress == SumSeries(NotSeries(StatusMask(ser, StrCompleted)))
        notstarted == SumSeries(StatusMask(ser, StrNotStarted))
        overdue == SumSeries(OverdueMask(df, ser, today))
    IN [shown |-> TRUE, total |-> total, completed |-> completed,
        inprogress |-> inprogress, notstarted |-> notstarted,
        overdue |-> overdue, today |-> today,
        gauges |-> <<create_colored_gauge(notstarted, total),
                     create_colored_gauge(inprogress, total),
                     create_colored_gauge(completed, total),
                     create_colored_gauge(overdue, total)>>]

\* lines 544-583: the four counts and their gauges; today is read once
KpiCounts(df, today) ==
    LET ser == ProgressSeries(df)
        total == Len(df.rows)
        completed == SumSeries(StatusMask(ser, StrCompleted))
        inprogress == SumSeries(StatusMask(ser, StrInProgress))
        notstarted == SumSeries(StatusMask(ser, StrNotStarted))
        overdue == SumSeries(OverdueMask(df, ser, today))
    IN [shown |-> TRUE, total |-> total, completed |-> completed,
        inprogress |-> inprogress, notstarted |-> notstarted,
        overdue |-> overdue, today |-> today,
        gauges |-> <<create_colored_gauge(notstarted, total),
                     create_colored_gauge(inprogress, total),
                     create_colored_gauge(completed, total),
                     create_colored_gauge(overdue, total)>>]

\* lines 609-611: df_main.groupby("Bucket Name")["Progress"] is a KeyError
\* when the table has a Bucket Name column and no Progress column
BucketRaises(df) == ColBucketName \in df.cols /\ ColProgress \notin df.cols

---------------------------------------------------------------------------
(* Average task duration (lines 277-286 and 587-593).  An instant is a     *)
(* number of ticks; TicksPerDay of them make a day, so that the whole days *)
(* of a difference are computed and not assumed.                           *)

TicksPerDay == 2

\* .replace("Null", None) on one cell
ReplaceNullNone(c) == IF c = StrCell(StrNull) THEN NA ELSE c

\* pd.to_datetime(df.get(col, pd.Series([])), errors="coerce") assigned to a
\* column of df: a column that is not there gives NaT in every row
DateColumn(df, col) ==
    [i \in DOMAIN df.rows |->
        IF col \in df.cols THEN ToDatetime(ReplaceNullNone(df.rows[i][col]))
        ELSE NA]

\* Timedelta.days: the whole days of a difference, rounded down
Days(ticks) == ticks \div TicksPerDay

\* (due - start).dt.days on one row: NaN when either date is NaT
DurationCell(start, due) ==
    IF IsNa(start) \/ IsNa(due) THEN [nan |-> TRUE, days |-> 0]
    ELSE [nan |-> FALSE, days |-> Days(due.d - start.d)]

\* df["Duration"] = (df["Due date"] - df["Start date"]).dt.days
DurationSeries(df) ==
    LET start == DateColumn(df, ColStartDate)
        due == DateColumn(df, ColDueDate)
    IN [i \in DOMAIN df.rows |-> DurationCell(start[i], due[i])]

\* the sum of the values of a Duration series that are not NaN
RECURSIVE SumDays(_)
SumDays(ser) ==
    IF ser = <<>> THEN 0
    ELSE (IF Head(ser).nan THEN 0 ELSE Head(ser).days) + SumDays(Tail(ser))

NoneValue == [k |-> "none", num |-> 0, den |-> 1]
NaN == [k |-> "nan", num |-> 0, den |-> 1]

\* a mean in which a missing duration counts as a duration of zero days
MeanZeroFilled(ser) ==
    IF ser = <<>> THEN NaN
    ELSE [k |-> "num", num |-> SumDays(ser), den |-> Len(ser)]

\* Series.mean(): NaN values are skipped; the mean of nothing is NaN.  The
\* mean is kept as the exact fraction num / den.
Mean(ser) ==
    LET present == {i \in DOMAIN ser : ~ser[i].nan}
    IN IF present = {} THEN NaN
       ELSE [k |-> "num", num |-> SumDays(ser), den |-> Cardinality(present)]

\* lines 277-286: None unless the table has rows and both date columns
avg_duration(df) ==
    IF ~IsEmpty(df) /\ ColStartDate \in df.cols /\ ColDueDate \in df.cols
    THEN Mean(DurationSeries(df))
    ELSE NoneValue

\* lines 587-591
avg_duration_local(df) == Mean(DurationSeries(df))

\* f"{x:.1f}": the tenths nearest to num / den.  A tie is resolved on the
\* binary value of the quotient, which is the even neighbour whenever the
\* quotient is a multiple of 1/4 (every tie of a mean of fewer than 20 rows).
RoundTenths(num, den) ==
    LET q == (10 * num) \div den
        r == (10 * num) % den
    IN IF 2 * r < den THEN q
       ELSE IF 2 * r > den THEN q + 1
       ELSE IF q % 2 = 0 THEN q ELSE q + 1

TextNA == [na |-> TRUE, tenths |-> 0]

\* f"{avg:.1f}" if pd.notna(avg) else "N/A"
FormatAvg(avg) ==
    IF avg.k = "num" THEN [na |-> FALSE, tenths |-> RoundTenths(avg.num, avg.den)]
    ELSE TextNA

---------------------------------------------------------------------------
(* Completion per bucket (lines 609-615). *)

\* df_main.groupby("Bucket Name"): the keys are the distinct cells of the
\* column (after cleaning no cell is NaN) and a group is the rows of a key
BucketKeys(df) == {df.rows[i][ColBucketName] : i \in DOMAIN df.rows}

BucketGroup(df, key) == {i \in DOMAIN df.rows : df.rows[i][ColBucketName] = key}

\* a completion in which the rows of the whole table are the denominator
BucketCompletionOfAll(df, key) ==
    LET done == StatusMask(GetCol(df, ColProgress, <<>>), StrCompleted)
    IN Times100(Divide(Cardinality({i \in BucketGroup(df, key) : done[i]}),
                       Len(df.rows)))

\* (x.str.lower() == "completed").mean() * 100 on the rows of one bucket
BucketCompletion(df, key) ==
    LET done == StatusMask(GetCol(df, ColProgress, <<>>), StrCompleted)
        group == BucketGroup(df, key)
    IN Times100(Divide(Cardinality({i \in group : done[i]}), Cardinality(group)))

\* completion_by_bucket: bucket -> Completion %, and the rows of each bucket;
\* evaluated only when BucketRaises is false
completion_by_bucket(df) ==
    IF ColBucketName \in df.cols
    THEN [pct |-> [key \in BucketKeys(df) |-> BucketCompletion(df, key)],
          rows |-> [key \in BucketKeys(df) |-> BucketGroup(df, key)]]
    ELSE [pct |-> <<>>, rows |-> <<>>]

NoInsights == [shown |-> FALSE, avg |-> TextNA, dials |-> FALSE,
               buckets |-> [pct |-> <<>>, rows |-> <<>>]]

\* the expander, lines 585-630: the average duration is written before the
\* bucket dials are computed
Insights(df) ==
    [shown |-> TRUE,
     avg |-> FormatAvg(avg_duration_local(df)),
     dials |-> ~BucketRaises(df) /\ ColBucketName \in df.cols,
     buckets |-> IF BucketRaises(df) THEN NoInsights.buckets
                 ELSE completion_by_bucket(df)]

---------------------------------------------------------------------------
(* Task Breakdown tab (lines 636-668). *)

DigitChars == <<"0","1","2","3","4","5","6","7","8","9">>

\* str(n) of a natural number
RECURSIVE IntText(_)
IntText(n) ==
    IF n < 10 THEN <<DigitChars[n + 1]>>
    ELSE Append(IntText(n \div 10), DigitChars[(n % 10) + 1])

\* str(cell): the text of a timestamp is digits and punctuation (shortened
\* here to its last digit), the text of NaN is "nan"
StrOf(c) ==
    IF c.k = "str" THEN c.s
    ELSE IF c.k = "date" THEN <<DigitChars[(c.d % 10) + 1]>>
    ELSE IF c.k = "num" THEN IntText(c.d)
    ELSE <<"n","a","n">>

\* a colouring that looks at the status before the due date
RowColorStatusFirst(df, row, today) ==
    IF ColProgress \in df.cols /\ ColDueDate \in df.cols
    THEN LET progress == Lower(StrOf(row[ColProgress]))
             due_date == ToDatetime(row[ColDueDate])
         IN IF progress = StrInProgress THEN ColorInProgress
            ELSE IF progress = StrNotStarted THEN ColorNotStarted
            ELSE IF progress = StrCompleted THEN ColorCompleted
            ELSE IF ~IsNa(due_date) /\ due_date.d < today THEN ColorOverdue
            ELSE bg_color
    ELSE bg_color

\* the colour of one row; today is pd.Timestamp.today()
RowColor(df, row, today) ==
    IF ColProgress \in df.cols /\ ColDueDate \in df.cols
    THEN LET progress == Lower(StrOf(row[ColProgress]))
             due_date == ToDatetime(row[ColDueDate])
         IN IF ~IsNa(due_date) /\ due_date.d < today /\ progress # StrCompleted
            THEN ColorOverdue
            ELSE IF progress = StrInProgress THEN ColorInProgress
            ELSE IF progress = StrNotStarted THEN ColorNotStarted
            ELSE IF progress = StrCompleted THEN ColorCompleted
            ELSE bg_color
    ELSE bg_color

NoHtml == [today |-> 0, colors |-> <<>>]

\* df_to_html: the rows are rendered within one reading of the clock
df_to_html(df, today) ==
    [today |-> today,
     colors |-> [i \in DOMAIN df.rows |-> RowColor(df, df.rows[i], today)]]

---------------------------------------------------------------------------
(* Timeline tab (lines 671-698). *)

\* df_main.replace("Null", None).dropna(subset=["Start date", "Due date"])
TimelineRows(df) ==
    {i \in DOMAIN df.rows :
        /\ df.rows[i][ColStartDate] # StrCell(StrNull)
        /\ df.rows[i][ColDueDate] # StrCell(StrNull)}

TimelineGuard(df) == ColStartDate \in df.cols /\ ColDueDate \in df.cols

\* timeline["Progress"] is a KeyError when the chart has rows and the table
\* has no Progress column
TimelineRaises(df) ==
    TimelineGuard(df) /\ TimelineRows(df) # {} /\ ColProgress \notin df.cols

---------------------------------------------------------------------------
(* Export Report tab (lines 701-803). *)

NoPdf == [built |-> FALSE, total |-> 0, completed |-> 0, inprogress |-> 0,
          notstarted |-> 0, overdue |-> 0, today |-> 0, avg |-> TextNA]

\* df_main["Progress"] and df_main["Due date"] are indexed without a guard
ExportRaises(df) == ColProgress \notin df.cols \/ ColDueDate \notin df.cols

\* kpi_data, lines 721-732; evaluated only when ExportRaises is false
kpi_data(df, today) ==
    LET ser == GetCol(df, ColProgress, <<>>)
    IN [built |-> TRUE,
        total |-> Len(df.rows),
        completed |-> SumSeries(StatusMask(ser, StrCompleted)),
        inprogress |-> SumSeries(StatusMask(ser, StrInProgress)),
        notstarted |-> SumSeries(StatusMask(ser, StrNotStarted)),
        overdue |-> SumSeries(
            AndSeries(BeforeSeries(GetCol(df, ColDueDate, <<>>), today),
                      NotSeries(StatusMask(ser, StrCompleted)))),
        today |-> today,
        avg |-> FormatAvg(avg_duration(df))]

---------------------------------------------------------------------------
(* One run of the script below the load (lines 269-803).  reads are the    *)
(* values pd.Timestamp.today() returns, in program order: reads[1] in the  *)
(* KPI tab, reads[2] in the Task Breakdown table, reads[3] in the report.  *)
(* An exception that escapes a tab ends the run: nothing after it is       *)
(* rendered.                                                               *)

Render(df, reads) ==
    LET shownKpi == IF IsEmpty(df) THEN NoKpi ELSE KpiCounts(df, reads[1])
        expander == IF IsEmpty(df) THEN NoInsights ELSE Insights(df)
        colours == df_to_html(df, reads[2])
        note == IF TimelineGuard(df) THEN {} ELSE {MsgNoTimeline}
    IN IF ~IsEmpty(df) /\ BucketRaises(df)
       THEN [exc |-> "KPIs", kpi |-> shownKpi, insights |-> expander,
             html |-> NoHtml, pdf |-> NoPdf, messages |-> {}]
       ELSE IF TimelineRaises(df)
       THEN [exc |-> "Timeline", kpi |-> shownKpi, insights |-> expander,
             html |-> colours, pdf |-> NoPdf, messages |-> {}]
       ELSE IF IsEmpty(df)
       THEN [exc |-> "none", kpi |-> shownKpi, insights |-> expander,
             html |-> colours, pdf |-> NoPdf,
             messages |-> note \cup {MsgNoExport}]
       ELSE IF ExportRaises(df)
       THEN [exc |-> "Export Report", kpi |-> shownKpi, insights |-> expander,
             html |-> colours, pdf |-> NoPdf, messages |-> note]
       ELSE [exc |-> "none", kpi |-> shownKpi, insights |-> expander,
             html |-> colours, pdf |-> kpi_data(df, reads[3]),
             messages |-> note]

---------------------------------------------------------------------------
(* The installations sheet (lines 231-251 and 288-292).  Two columns of    *)
(* this table can carry the same name, so its columns are kept in order:   *)
(* cols[i] is the name of column i, dtypes[i] its dtype ("object" or       *)
(* "float64") and rows[r][i] its cell in row r.  Numbers are naturals.     *)

NumCell(n) == [k |-> "num", d |-> n, s |-> <<>>]

KwContractor == <<"c","o","n","t","r","a","c","t","o","r">>
KwContractors == <<"c","o","n","t","r","a","c","t","o","r","s">>
KwInstaller == <<"i","n","s","t","a","l","l","e","r">>
KwInstall == <<"i","n","s","t","a","l","l">>
KwInstalled == <<"i","n","s","t","a","l","l","e","d">>
KwComplete == <<"c","o","m","p","l","e","t","e">>
KwStatus == <<"s","t","a","t","u","s">>
KwSite == <<"s","i","t","e">>
KwSites == <<"s","i","t","e","s">>
KwTotal == <<"t","o","t","a","l">>
KwProgress == <<"p","r","o","g","r","e","s","s">>
KwState == <<"s","t","a","t","e">>

ColContractor == <<"C","o","n","t","r","a","c","t","o","r">>
ColInstalled == <<"I","n","s","t","a","l","l","e","d">>
ColSites == <<"S","i","t","e","s">>

\* pd.DataFrame()
EmptyInstall == [cols |-> <<>>, dtypes |-> <<>>, rows |-> <<>>]

\* DataFrame.empty
IsEmptyInstall(df) == df.cols = <<>> \/ df.rows = <<>>

\* the members of a set of positions in increasing order
Ascending(K) ==
    [i \in 1..Cardinality(K) |->
        CHOOSE k \in K : Cardinality({j \in K : j < k}) = i - 1]

\* the table of the columns at the positions keep, in their order
TakeColumns(df, keep) ==
    [cols |-> [i \in DOMAIN keep |-> df.cols[keep[i]]],
     dtypes |-> [i \in DOMAIN keep |-> df.dtypes[keep[i]]],
     rows |-> [r \in DOMAIN df.rows |->
                  [i \in DOMAIN keep |-> df.rows[r][keep[i]]]]]

\* dropna(axis=0, how="all").dropna(axis=1, how="all")
DropAllNa(df) ==
    LET SomeValue(row) == \E i \in DOMAIN row : ~IsNa(row[i])
        kept == [cols |-> df.cols, dtypes |-> df.dtypes,
                 rows |-> SelectSeq(df.rows, SomeValue)]
        full == {i \in DOMAIN kept.cols :
                    \E r \in DOMAIN kept.rows : ~IsNa(kept.rows[r][i])}
    IN TakeColumns(kept, Ascending(full))

\* df.columns = [str(c).strip() for c in df.columns]
StripColumns(df) == [df EXCEPT !.cols = [i \in DOMAIN df.cols |-> Strip(df.cols[i])]]

\* a role given to every header, whatever the headers before it were: the
\* elif chain of lines 237-242 on the lower-cased header
RoleOfHeader(low) ==
    IF Contains(KwContractor, low) \/ Contains(KwInstaller, low)
       \/ Contains(KwContractors, low)
    THEN ColContractor
    ELSE IF Contains(KwInstall, low) \/ Contains(KwInstalled, low)
            \/ Contains(KwComplete, low) \/ Contains(KwStatus, low)
    THEN ColInstalled
    ELSE IF Contains(KwSite, low) \/ Contains(KwSites, low)
            \/ Contains(KwTotal, low)
    THEN ColSites
    ELSE <<>>

\* colmap, lines 234-242: every header that matches a role is a key
Colmap(cols) ==
    LET Matches == {i \in DOMAIN cols : RoleOfHeader(Lower(cols[i])) # <<>>}
    IN [c \in {cols[i] : i \in Matches} |-> RoleOfHeader(Lower(c))]

\* df.rename(columns=colmap)
Rename(df, mapping) ==
    [df EXCEPT !.cols = [i \in DOMAIN df.cols |->
                            IF df.cols[i] \in DOMAIN mapping
                            THEN mapping[df.cols[i]] ELSE df.cols[i]]]

\* the positions of the columns named name
ColumnsNamed(df, name) == {i \in DOMAIN df.cols : df.cols[i] = name}

\* df[name] is a DataFrame, not a Series, when two columns are named name
IsAmbiguous(df, name) == Cardinality(ColumnsNamed(df, name)) > 1

\* the text is a string of digits
IsDigits(t) ==
    /\ t # <<>>
    /\ \A i \in DOMAIN t : \E d \in DOMAIN DigitChars : DigitChars[d] = t[i]

\* int(text) of a string of digits
RECURSIVE ParseNat(_)
ParseNat(t) ==
    IF t = <<>> THEN 0
    ELSE 10 * ParseNat(SubSeq(t, 1, Len(t) - 1))
         + (CHOOSE d \in 0..9 : DigitChars[d + 1] = t[Len(t)])

\* pd.to_numeric(x, errors="coerce") on one cell
ToNumeric(c) ==
    IF c.k = "num" THEN c
    ELSE IF c.k = "str" /\ IsDigits(Strip(c.s)) THEN NumCell(ParseNat(Strip(c.s)))
    ELSE NA

\* the table with the dtype of the column named name set to dtype
WithDtype(df, name, dtype) ==
    [df EXCEPT !.dtypes = [i \in DOMAIN df.cols |->
                              IF df.cols[i] = name THEN dtype ELSE df.dtypes[i]]]

\* .astype(str).str.strip() on one cell
AsStrippedText(c) == StrCell(Strip(StrOf(c)))

\* lines 245-246
StripContractor(df) ==
    IF ColumnsNamed(df, ColContractor) = {} THEN df
    ELSE [WithDtype(df, ColContractor, "object") EXCEPT !.rows =
             [r \in DOMAIN df.rows |->
                 [i \in DOMAIN df.cols |->
                     IF df.cols[i] = ColContractor
                     THEN AsStrippedText(df.rows[r][i])
                     ELSE df.rows[r][i]]]]

\* lines 247-249 for one of the two columns
CoerceNumeric(df, name) ==
    IF ColumnsNamed(df, name) = {} THEN df
    ELSE [WithDtype(df, name, "float64") EXCEPT !.rows =
             [r \in DOMAIN df.rows |->
                 [i \in DOMAIN df.cols |->
                     IF df.cols[i] = name THEN ToNumeric(df.rows[r][i])
                     ELSE df.rows[r][i]]]]

\* lines 231-251 of load_install_data on the table read from the chosen
\* sheet: .str on a DataFrame is an AttributeError and pd.to_numeric of a
\* DataFrame a TypeError, and neither is caught
load_install_data(raw) ==
    IF IsEmptyInstall(raw) THEN [raised |-> FALSE, df |-> raw]
    ELSE LET named == StripColumns(DropAllNa(raw))
             renamed == Rename(named, Colmap(named.cols))
         IN IF \E name \in {ColContractor, ColSites, ColInstalled} :
                  IsAmbiguous(renamed, name)
            THEN [raised |-> TRUE, df |-> renamed]
            ELSE [raised |-> FALSE,
                  df |-> CoerceNumeric(
                             CoerceNumeric(StripContractor(renamed), ColSites),
                             ColInstalled)]

\* fillna("Null") on a column turns a float64 column with a NaN into an
\* object column
DtypeAfterFill(df, i) ==
    IF \E r \in DOMAIN df.rows : IsNa(df.rows[r][i]) THEN "object"
    ELSE df.dtypes[i]

\* lines 288-292: parse the date columns, fill the nulls, drop two columns
CleanInstall(df) ==
    IF IsEmptyInstall(df) THEN df
    ELSE LET parsed ==
                 [df EXCEPT !.rows =
                     [r \in DOMAIN df.rows |->
                         [i \in DOMAIN df.cols |->
                             IF IsDateCol(df.cols[i])
                             THEN ToDatetime(df.rows[r][i])
                             ELSE df.rows[r][i]]]]
             filled ==
                 [cols |-> parsed.cols,
                  dtypes |-> [i \in DOMAIN parsed.cols |-> DtypeAfterFill(parsed, i)],
                  rows |-> [r \in DOMAIN parsed.rows |->
                               [i \in DOMAIN parsed.cols |->
                                   FillNull(parsed.rows[r][i])]]]
         IN TakeColumns(filled,
                        Ascending({i \in DOMAIN filled.cols :
                                      filled.cols[i] \notin {ColIsRecurring, ColLate}}))

---------------------------------------------------------------------------
(* compute_install_summary (lines 301-360) and the contractor gauges       *)
(* (lines 492-499).  A column the detection did not find is the name <<>>  *)
(* (None).  A summary maps a contractor to its two cells and records the   *)
(* branch that built it.                                                   *)

StrInstalled == <<"i","n","s","t","a","l","l","e","d">>
StrComplete == <<"c","o","m","p","l","e","t","e">>
StrYes == <<"y","e","s">>
StrDone == <<"d","o","n","e">>

\* the name of the first of the columns at the positions hits, or None
FirstColumn(df, hits) ==
    IF hits = {} THEN <<>>
    ELSE df.cols[CHOOSE i \in hits : \A j \in hits : i <= j]

IsContractorHeader(low) ==
    Contains(KwContractor, low) \/ Contains(KwInstaller, low)
    \/ Contains(KwContractors, low)

IsStatusHeader(low) ==
    Contains(KwStatus, low) \/ Contains(KwInstall, low)
    \/ Contains(KwInstalled, low) \/ Contains(KwComplete, low)
    \/ Contains(KwProgress, low)

IsSitesHeader(low) ==
    Contains(KwSite, low) \/ Contains(KwSites, low) \/ Contains(KwTotal, low)

IsProgressHeader(low) == Contains(KwProgress, low) \/ Contains(KwState, low)

\* lines 305-329: the three columns, each bound to the first header that
\* matches it, then the fallbacks
DetectColumns(df) ==
    LET Low(i) == Lower(df.cols[i])
        contractor == FirstColumn(df, {i \in DOMAIN df.cols :
                                          IsContractorHeader(Low(i))})
        status == FirstColumn(df, {i \in DOMAIN df.cols : IsStatusHeader(Low(i))})
        progress == FirstColumn(df, {i \in DOMAIN df.cols :
                                        IsProgressHeader(Low(i))})
        sites == FirstColumn(df, {i \in DOMAIN df.cols : IsSitesHeader(Low(i))})
        objects == {i \in DOMAIN df.cols :
                       df.dtypes[i] = "object" /\ ~IsDateCol(df.cols[i])}
    IN [contractor_col |->
            IF contractor # <<>> THEN contractor
            ELSE IF objects = {} THEN <<>>
            ELSE FirstColumn(df, objects),
        status_col |-> IF status # <<>> THEN status ELSE progress,
        sites_col |-> sites]

\* the position of the column named name (the names are distinct here)
ColumnAt(df, name) == CHOOSE i \in DOMAIN df.cols : df.cols[i] = name

HasColumn(df, name) == \E i \in DOMAIN df.cols : df.cols[i] = name

\* df.groupby(col): the keys, and the rows of a key
GroupKeys(df, col) == {df.rows[r][ColumnAt(df, col)] : r \in DOMAIN df.rows}

GroupRows(df, col, key) ==
    {r \in DOMAIN df.rows : df.rows[r][ColumnAt(df, col)] = key}

\* the cells of column col in the rows of a group, in row order
GroupCells(df, col, rows) ==
    LET order == Ascending(rows)
    IN [i \in DOMAIN order |-> df.rows[order[i]][ColumnAt(df, col)]]

RECURSIVE SumCells(_)
\* "sum" of the cells of one group: numbers add, texts concatenate, and a
\* number plus a text is a TypeError
SumCells(cells) ==
    IF Len(cells) = 1 THEN [raised |-> FALSE, value |-> Head(cells)]
    ELSE LET rest == SumCells(Tail(cells))
             first == Head(cells)
         IN IF rest.raised \/ first.k # rest.value.k
            THEN [raised |-> TRUE, value |-> NA]
            ELSE IF first.k = "num"
            THEN [raised |-> FALSE, value |-> NumCell(first.d + rest.value.d)]
            ELSE [raised |-> FALSE, value |-> StrCell(first.s \o rest.value.s)]

\* "count" of the cells of one group: the cells that are not null
CountCells(cells) == NumCell(Cardinality({i \in DOMAIN cells : ~IsNa(cells[i])}))

\* str(v).strip().lower() in ("completed","installed","complete","yes","done")
IsCompletedValue(c) ==
    Lower(Strip(StrOf(c))) \in {StrCompleted, StrInstalled, StrComplete, StrYes, StrDone}

NoSummary == [branch |-> "empty", rows |-> <<>>]

\* the except branch, lines 353-359
FallbackSummary(df) ==
    IF HasColumn(df, ColContractor)
    THEN [branch |-> "fallback",
          rows |-> [key \in GroupKeys(df, ColContractor) |->
                       [Completed_Sites |-> NumCell(0),
                        Total_Sites |->
                            CountCells(GroupCells(df, df.cols[1],
                                GroupRows(df, ColContractor, key)))]]]
    ELSE NoSummary

\* the branch with the two sums, lines 334-344
SumSummary(df, d) ==
    LET keys == GroupKeys(df, d.contractor_col)
        Cells(col, key) == GroupCells(df, col, GroupRows(df, d.contractor_col, key))
        done == [key \in keys |-> SumCells(Cells(d.status_col, key))]
        all == [key \in keys |->
                   IF d.sites_col # <<>> THEN SumCells(Cells(d.sites_col, key))
                   ELSE done[key]]
    IN IF \E key \in keys : done[key].raised \/ all[key].raised
       THEN FallbackSummary(df)
       ELSE [branch |-> "sum",
             rows |-> [key \in keys |->
                          [Completed_Sites |-> done[key].value,
                           Total_Sites |-> all[key].value]]]

\* the branch that counts the completed rows, lines 346-351
CountSummary(df, d) ==
    LET keys == GroupKeys(df, d.contractor_col)
        counted == IF HasColumn(df, d.status_col) THEN d.status_col ELSE df.cols[1]
    IN [branch |-> "count",
        rows |-> [key \in keys |->
            LET rows == GroupRows(df, d.contractor_col, key)
            IN [Completed_Sites |->
                    NumCell(Cardinality({r \in rows :
                        /\ HasColumn(df, d.status_col)
                        /\ IsCompletedValue(
                               df.rows[r][ColumnAt(df, d.status_col)])})),
                Total_Sites |-> CountCells(GroupCells(df, counted, rows))]]]

\* the condition of line 333.  It parses as
\*     is_numeric_dtype(df[status_col]) if status_col in df.columns
\*         else (False or (status_col in df.columns and ...))
\* so the test of the digit strings is evaluated only when status_col is no
\* column, where it is False.
TakesSumBranch(df, d) ==
    IF HasColumn(df, d.status_col)
    THEN df.dtypes[ColumnAt(df, d.status_col)] = "float64"
    ELSE FALSE \/ (HasColumn(df, d.status_col)
                   /\ \A r \in DOMAIN df.rows :
                         LET c == df.rows[r][ColumnAt(df, d.status_col)]
                         IN IsNa(c) \/ IsDigits(StrOf(c)))

\* compute_install_summary(df); groupby(None) is a TypeError
compute_install_summary(df) ==
    IF IsEmptyInstall(df) THEN NoSummary
    ELSE LET d == DetectColumns(df)
         IN IF d.contractor_col = <<>> THEN FallbackSummary(df)
            ELSE IF TakesSumBranch(df, d) THEN SumSummary(df, d)
            ELSE CountSummary(df, d)

\* int(x) of a summary cell: a text that is no number is a ValueError
IntOf(c) ==
    IF c.k = "num" THEN [raised |-> FALSE, value |-> c.d]
    ELSE IF c.k = "str" /\ IsDigits(Strip(c.s))
    THEN [raised |-> FALSE, value |-> ParseNat(Strip(c.s))]
    ELSE [raised |-> TRUE, value |-> 0]

NoGauges == [shown |-> FALSE, raised |-> FALSE, pct |-> <<>>]

\* lines 373-512: the gauges of the main summary, drawn when the sheet has
\* rows and a contractor and a status column were detected
ContractorGauges(df, summary) ==
    LET d == DetectColumns(df)
    IN IF IsEmptyInstall(df) \/ d.contractor_col = <<>> \/ d.status_col = <<>>
       THEN NoGauges
       ELSE IF \E key \in DOMAIN summary.rows :
                  \/ IntOf(summary.rows[key].Completed_Sites).raised
                  \/ IntOf(summary.rows[key].Total_Sites).raised
       THEN [shown |-> FALSE, raised |-> TRUE, pct |-> <<>>]
       ELSE [shown |-> TRUE, raised |-> FALSE,
             pct |-> [key \in DOMAIN summary.rows |->
                         make_contractor_gauge(
                             IntOf(summary.rows[key].Completed_Sites).value,
                             IntOf(summary.rows[key].Total_Sites).value)]]

---------------------------------------------------------------------------
(* The workbooks the model is run on. *)

RawCompleted == <<"C","o","m","p","l","e","t","e","d">>
RawCompletedUpper == <<"C","O","M","P","L","E","T","E","D">>
RawCompletedPadded == <<" ","C","o","m","p","l","e","t","e","d"," ">>
RawInProgress == <<"I","n"," ","P","r","o","g","r","e","s","s">>
RawNotStarted == <<"N","o","t"," ","S","t","a","r","t","e","d">>
RawToDo == <<"T","o"," ","D","o">>
RawHigh == <<"H","i","g","h">>
RawPhase == <<"P","h","a","s","e"," ","A">>

\* the status cells of a spreadsheet: texts and the empty cell
StatusCells ==
    {StrCell(t) : t \in {RawCompleted, RawCompletedUpper, RawCompletedPadded,
                         RawInProgress, RawNotStarted, RawToDo}} \cup {NA}

\* the date cells of a spreadsheet: instants and the empty cell
DateCells == {DateCell(d) : d \in 1..MaxDue} \cup {NA}

AllCols == {ColProgress, ColDueDate, ColStartDate, ColPriority, ColBucketName}

\* the sequences over S of length at most n
SeqsUpTo(S, n) == UNION {[1..k -> S] : k \in 0..n}

Row2(p, d) == [c \in {ColProgress, ColDueDate} |-> IF c = ColProgress THEN p ELSE d]

\* Tasks tables with a Progress and a Due date column
KpiTables ==
    {[cols |-> {ColProgress, ColDueDate}, rows |-> r] :
     r \in SeqsUpTo({Row2(p, d) : p \in StatusCells, d \in DateCells}, MaxRows)}

\* the three canonical labels
CanonicalCells == {StrCell(RawCompleted), StrCell(RawInProgress), StrCell(RawNotStarted)}

\* Tasks tables of two rows with canonical labels
PairTables ==
    LET Rows == {Row2(p, d) : p \in CanonicalCells, d \in DateCells}
    IN {[cols |-> {ColProgress, ColDueDate}, rows |-> <<a, b>>] :
        a \in Rows, b \in Rows}

\* Tasks tables over every subset of the expected columns
ColTables ==
    LET Cell(c, p, d, t) ==
            IF c = ColProgress THEN p
            ELSE IF c = ColDueDate THEN d
            ELSE IF c = ColStartDate THEN t
            ELSE IF c = ColPriority THEN StrCell(RawHigh)
            ELSE StrCell(RawPhase)
        Rows(C) == {[c \in C |-> Cell(c, p, d, t)] :
                    p \in {StrCell(RawCompleted), StrCell(RawInProgress)},
                    d \in DateCells, t \in {NA, DateCell(1)}}
    IN UNION {{[cols |-> C, rows |-> r] : r \in SeqsUpTo(Rows(C), MaxColRows)} :
              C \in (SUBSET AllCols) \ {{}}}

\* Tasks tables of two rows whose start and due dates are whole and half
\* days apart, in both orders, or missing
DurationTables ==
    LET Cols == {ColProgress, ColDueDate, ColStartDate}
        Rows == {[c \in Cols |-> IF c = ColProgress THEN StrCell(RawInProgress)
                                 ELSE IF c = ColDueDate THEN d ELSE t] :
                 d \in {NA, DateCell(0), DateCell(3)},
                 t \in {NA, DateCell(0), DateCell(1)}}
    IN {[cols |-> Cols, rows |-> <<a, b>>] : a \in Rows, b \in Rows}

RawPhaseB == <<"P","h","a","s","e"," ","B">>

\* Tasks tables of three rows in at most three buckets, one of them the
\* bucket of the rows without a bucket name
BucketTables ==
    LET Cols == {ColBucketName, ColProgress, ColDueDate}
        Rows == {[c \in Cols |-> IF c = ColBucketName THEN b
                                 ELSE IF c = ColProgress THEN p ELSE NA] :
                 b \in {NA, StrCell(RawPhase), StrCell(RawPhaseB)},
                 p \in {StrCell(RawCompleted), StrCell(RawInProgress)}}
    IN {[cols |-> Cols, rows |-> <<a, b, c>>] : a \in Rows, b \in Rows, c \in Rows}

Sheet(t) == [bad |-> FALSE, table |-> t]
BadSheet == [bad |-> TRUE, table |-> EmptyFrame]

SampleA ==
    [cols |-> {ColProgress, ColDueDate},
     rows |-> <<Row2(StrCell(RawCompleted), DateCell(1)),
                Row2(StrCell(RawInProgress), DateCell(1))>>]
SampleB ==
    [cols |-> {ColProgress, ColDueDate},
     rows |-> <<Row2(StrCell(RawNotStarted), NA)>>]

\* a workbook: the sheet names in file order and the sheets
Book(names, data) == [names |-> names, data |-> data]
NoBook == Book(<<>>, EmptyMap)

\* workbooks of one Tasks sheet
TaskBooks(T) == {Book(<<"Tasks">>, "Tasks" :> Sheet(t)) : t \in T}

\* workbooks of several sheets, some of which do not parse
MixedBooks ==
    LET Srcs == {BadSheet, Sheet(SampleA), Sheet(SampleB)}
    IN {Book(<<"Notes">>, "Notes" :> a) : a \in Srcs}
       \cup {Book(<<"Tasks">>, "Tasks" :> BadSheet)}
       \cup {Book(<<"Tasks", "Notes">>, ("Tasks" :> a) @@ ("Notes" :> b)) :
             a \in Srcs, b \in Srcs}
       \cup {Book(<<"Notes", "Tasks">>, ("Tasks" :> a) @@ ("Notes" :> b)) :
             a \in Srcs, b \in Srcs}

\* the workbooks of the specification of one unchanging file
RenderBooks ==
    TaskBooks(KpiTables \cup PairTables \cup ColTables \cup DurationTables
              \cup BucketTables)
    \cup MixedBooks

\* the workbooks written to disk in the specification of a session
SessionBooks ==
    TaskBooks({SampleA, SampleB})
    \cup {Book(<<"Notes", "Tasks">>, ("Tasks" :> BadSheet) @@ ("Notes" :> Sheet(SampleA)))}

\* a clock that was read once, when the server started, and kept
ReadingsAtStart(t) == {[i \in 1..3 |-> 1]}

\* the clock as read three times in one run that starts at t
Readings(t) ==
    {r \in [1..3 -> t..MaxClock] : r[1] <= r[2] /\ r[2] <= r[3]}

---------------------------------------------------------------------------
(* State machine. *)

NoGauge == [fn |-> "none", value |-> 0, total |-> 0]

InitRun ==
    /\ cache = EmptyMap
    /\ run = "idle"
    /\ exc = "none"
    /\ bodyRan = FALSE
    /\ sheets = EmptyMap
    /\ df_main = EmptyFrame
    /\ kpi = NoKpi
    /\ insights = NoInsights
    /\ html = NoHtml
    /\ pdf = NoPdf
    /\ messages = {}

InitGaugeIdle ==
    /\ gaugeIn = NoGauge
    /\ gaugeOut = ZeroPct

InitInstallRun ==
    /\ installRun = "idle"
    /\ colmap = <<>>
    /\ df_install = EmptyInstall
    /\ summary_main = NoSummary
    /\ contractor_gauges = NoGauges

InitInstallIdle ==
    /\ raw_install = EmptyInstall
    /\ InitInstallRun

\* a session: the server starts with some workbook, or none, on disk
Init ==
    /\ clock = 1
    /\ \/ fileKind = "ok" /\ fileBook \in SessionBooks /\ fileMtime = 1
       \/ fileKind = "corrupt" /\ fileBook = NoBook /\ fileMtime = 1
       \/ fileKind = "missing" /\ fileBook = NoBook /\ fileMtime = 0
    /\ InitRun
    /\ InitGaugeIdle
    /\ InitInstallIdle

\* one run of the script (lines 254-803): load through the cache, clean,
\* render the tabs
Rerun ==
    \E ld \in {load_data(fileKind, fileBook, file_last_modified(fileKind, fileMtime), cache)} :
    \E df \in {CleanData(GetTasks(ld.value))} :
       /\ cache' = ld.store
       /\ bodyRan' = ld.miss
       /\ IF ld.raised
          THEN /\ run' = "crashed"
               /\ exc' = "load_data"
               /\ sheets' = EmptyMap
               /\ df_main' = EmptyFrame
               /\ kpi' = NoKpi
               /\ insights' = NoInsights
               /\ html' = NoHtml
               /\ pdf' = NoPdf
               /\ messages' = {}
               /\ clock' = clock
          ELSE \E reads \in Readings(clock) :
                  \E out \in {Render(df, reads)} :
                     /\ run' = IF out.exc = "none" THEN "rendered" ELSE "crashed"
                     /\ exc' = out.exc
                     /\ sheets' = ld.value
                     /\ df_main' = df
                     /\ kpi' = out.kpi
                     /\ insights' = out.insights
                     /\ html' = out.html
                     /\ pdf' = out.pdf
                     /\ messages' = out.messages
                     /\ clock' = reads[3]
       /\ UNCHANGED <<fileVars, gaugeVars, installVars>>

\* time passes between runs
Tick ==
    /\ clock < MaxClock
    /\ clock' = clock + 1
    /\ UNCHANGED <<fileVars, cache, runVars, gaugeVars, installVars>>

\* the workbook is saved with other content; its mtime is the clock
WriteFile ==
    /\ \E b \in SessionBooks :
          /\ ~(fileKind = "ok" /\ fileBook = b)
          /\ fileBook' = b
    /\ fileKind' = "ok"
    /\ fileMtime' = clock
    /\ UNCHANGED <<clock, cache, runVars, gaugeVars, installVars>>

\* the workbook is overwritten with something that is no spreadsheet
CorruptFile ==
    /\ fileKind # "corrupt"
    /\ fileKind' = "corrupt"
    /\ fileBook' = NoBook
    /\ fileMtime' = clock
    /\ UNCHANGED <<clock, cache, runVars, gaugeVars, installVars>>

\* the workbook is removed
DeleteFile ==
    /\ fileKind # "missing"
    /\ fileKind' = "missing"
    /\ fileBook' = NoBook
    /\ fileMtime' = 0
    /\ UNCHANGED <<clock, cache, runVars, gaugeVars, installVars>>

Next == Rerun \/ Tick \/ WriteFile \/ CorruptFile \/ DeleteFile

Spec == Init /\ [][Next]_vars

\* one workbook that does not change: every table of the bounds, re-run as
\* time passes
InitRender ==
    /\ clock = 1
    /\ \/ fileKind = "ok" /\ fileBook \in RenderBooks /\ fileMtime = 1
       \/ fileKind = "corrupt" /\ fileBook = NoBook /\ fileMtime = 1
       \/ fileKind = "missing" /\ fileBook = NoBook /\ fileMtime = 0
    /\ InitRun
    /\ InitGaugeIdle
    /\ InitInstallIdle

NextRender == Rerun \/ Tick

SpecRender == InitRender /\ [][NextRender]_vars

\* the two gauge functions on every value <= total
InitGauge ==
    /\ clock = 1
    /\ fileKind = "missing" /\ fileBook = NoBook /\ fileMtime = 0
    /\ InitRun
    /\ \E t \in 0..MaxTotal : \E v \in 0..t :
          gaugeIn = [fn |-> "none", value |-> v, total |-> t]
    /\ gaugeOut = ZeroPct
    /\ InitInstallIdle

CallColoredGauge ==
    /\ gaugeIn' = [gaugeIn EXCEPT !.fn = "create_colored_gauge"]
    /\ gaugeOut' = create_colored_gauge(gaugeIn.value, gaugeIn.total)
    /\ UNCHANGED <<fileVars, clock, cache, runVars, installVars>>

CallContractorGauge ==
    /\ gaugeIn' = [gaugeIn EXCEPT !.fn = "make_contractor_gauge"]
    /\ gaugeOut' = make_contractor_gauge(gaugeIn.value, gaugeIn.total)
    /\ UNCHANGED <<fileVars, clock, cache, runVars, installVars>>

NextGauge == CallColoredGauge \/ CallContractorGauge

SpecGauge == InitGauge /\ [][NextGauge]_vars

---------------------------------------------------------------------------
(* The installations sheets the model is run on, and the installations     *)
(* part of a run.                                                          *)

HdrContractor == <<"C","o","n","t","r","a","c","t","o","r">>
HdrInstaller == <<"I","n","s","t","a","l","l","e","r">>
HdrInstalled == <<"I","n","s","t","a","l","l","e","d">>
HdrTotalInstalled == <<"T","o","t","a","l"," ","I","n","s","t","a","l","l","e","d">>
HdrStatus == <<"S","t","a","t","u","s">>
HdrSites == <<" ","S","i","t","e","s">>
HdrTotal == <<"T","o","t","a","l">>
HdrProgress == <<"P","r","o","g","r","e","s","s">>

Headers == {HdrContractor, HdrInstaller, HdrInstalled, HdrTotalInstalled,
            HdrStatus, HdrSites, HdrTotal, HdrProgress}

RawNameA == <<"A","c","m","e">>
RawNameB == <<"B","o","l","t">>
RawPending == <<"P","e","n","d","i","n","g">>
RawFive == <<"5">>

\* a sheet as read with dtype=object
InstallSheet(cols, rows) ==
    [cols |-> cols, dtypes |-> [i \in DOMAIN cols |-> "object"], rows |-> rows]

\* sheets of one row over every choice of at most MaxHeaders different headers
HeaderSheets ==
    LET Cell(h) == IF h \in {HdrContractor, HdrInstaller} THEN StrCell(RawNameA)
                   ELSE IF h \in {HdrStatus, HdrProgress} THEN StrCell(RawCompleted)
                   ELSE IF h \in {HdrSites, HdrTotal} THEN NumCell(2)
                   ELSE NumCell(1)
        Lists == {hs \in SeqsUpTo(Headers, MaxHeaders) :
                     /\ hs # <<>>
                     /\ \A i \in DOMAIN hs : \A j \in DOMAIN hs :
                           hs[i] = hs[j] => i = j}
    IN {InstallSheet(hs, <<[i \in DOMAIN hs |-> Cell(hs[i])]>>) : hs \in Lists}

\* sheets of at most MaxInstallRows rows under fixed headers
RowSheets(cols, Rows) ==
    {InstallSheet(cols, rows) : rows \in SeqsUpTo(Rows, MaxInstallRows)}

CountCellsIn == {NA, NumCell(1), NumCell(2)}
NameCells == {StrCell(RawNameA), StrCell(RawNameB)}
StatusTexts == {StrCell(RawCompleted), StrCell(RawPending), StrCell(RawFive)}

InstallSheets ==
    HeaderSheets
    \cup RowSheets(<<HdrContractor, HdrInstalled, HdrSites>>,
                   {<<n, i, t>> : n \in NameCells, i \in CountCellsIn,
                                  t \in CountCellsIn})
    \cup RowSheets(<<HdrContractor, HdrInstalled>>,
                   {<<n, i>> : n \in NameCells, i \in CountCellsIn})
    \cup RowSheets(<<HdrContractor, HdrProgress>>,
                   {<<n, p>> : n \in NameCells, p \in StatusTexts})

\* the installations part of one run of the script: load_install_data from
\* line 231 on (line 263), cleaning (288-292), compute_install_summary
\* (363) and the gauges of the Installations tab (373-512)
RunInstallations ==
    /\ installRun = "idle"
    /\ \E ld \in {load_install_data(raw_install)} :
          /\ colmap' = IF IsEmptyInstall(raw_install) THEN <<>>
                       ELSE Colmap(StripColumns(DropAllNa(raw_install)).cols)
          /\ IF ld.raised
             THEN /\ installRun' = "crashed"
                  /\ df_install' = EmptyInstall
                  /\ summary_main' = NoSummary
                  /\ contractor_gauges' = NoGauges
             ELSE \E df \in {CleanInstall(ld.df)} :
                  \E summary \in {compute_install_summary(df)} :
                  \E gauges \in {ContractorGauges(df, summary)} :
                     /\ installRun' = IF gauges.raised THEN "crashed"
                                      ELSE "rendered"
                     /\ df_install' = df
                     /\ summary_main' = summary
                     /\ contractor_gauges' = gauges
    /\ UNCHANGED <<fileVars, clock, cache, runVars, gaugeVars, raw_install>>

InitInstall ==
    /\ clock = 1
    /\ fileKind = "missing" /\ fileBook = NoBook /\ fileMtime = 0
    /\ InitRun
    /\ InitGaugeIdle
    /\ raw_install \in InstallSheets
    /\ InitInstallRun

NextInstall == RunInstallations

SpecInstall == InitInstall /\ [][NextInstall]_vars

---------------------------------------------------------------------------
(* The claims.  Under SpecRender the workbook on disk never changes, so a  *)
(* state after a run relates what the run showed to the workbook it read.  *)

\* the Tasks sheet as it is in the workbook on disk
RawTasks ==
    IF /\ fileKind = "ok"
       /\ SheetTasks \in DOMAIN fileBook.data
       /\ ~fileBook.data[SheetTasks].bad
    THEN fileBook.data[SheetTasks].table
    ELSE EmptyFrame

\* the names of the sheets of the workbook on disk
SheetNames == {fileBook.names[i] : i \in DOMAIN fileBook.names}

\* C1: when the workbook cannot be opened (it is missing, or it is no
\* spreadsheet), a run gets the empty mapping from load_data, works on an
\* empty dataset, shows the "no data" warning and raises nothing.
C1_UnopenableFileGivesNoData ==
    (run # "idle" /\ fileKind \in {"missing", "corrupt"})
        => /\ exc = "none"
           /\ sheets = EmptyMap
           /\ IsEmpty(df_main)
           /\ MsgNoExport \in messages

\* C2: for a workbook that opens, load_data returns exactly one entry per
\* sheet name; a sheet that does not parse maps to the empty table and every
\* other sheet maps to its parsed content.
C2_OneEntryPerSheet ==
    (run # "idle" /\ fileKind = "ok")
        => /\ exc # "load_data"
           /\ DOMAIN sheets = SheetNames
           /\ \A n \in SheetNames :
                 sheets[n] = IF fileBook.data[n].bad THEN EmptyFrame
                             ELSE fileBook.data[n].table

\* a run loaded a workbook in which one sheet did not parse and another did
C2_Witness ==
    /\ run # "idle"
    /\ bodyRan
    /\ fileKind = "ok"
    /\ \E a \in DOMAIN sheets : \E b \in DOMAIN sheets :
          /\ fileBook.data[a].bad
          /\ sheets[a] = EmptyFrame
          /\ ~fileBook.data[b].bad
          /\ sheets[b] = fileBook.data[b].table
          /\ ~IsEmpty(sheets[b])

\* C3: over any sequence of re-runs and file modifications, a re-run works
\* on the current content of the workbook, never on a previously cached one.
C3_RerunSeesCurrentContent ==
    [][(Rerun /\ exc' # "load_data")
          => sheets' = LoadDataBody(fileKind, fileBook).value]_vars

\* C4: for a non-empty Tasks table that lacks one of the expected columns,
\* what depends on the column is skipped and the run raises nothing.
C4_MissingColumnNeverRaises ==
    (run # "idle" /\ ~IsEmpty(df_main) /\ AllCols \ df_main.cols # {})
        => exc = "none"

---------------------------------------------------------------------------
(* The aggregator's counts against the rows of the Tasks sheet on disk. *)

TaskRows == DOMAIN RawTasks.rows

\* row i has a status text that matches t when lower-cased
HasStatus(i, t) ==
    /\ ColProgress \in RawTasks.cols
    /\ RawTasks.rows[i][ColProgress].k = "str"
    /\ Lower(RawTasks.rows[i][ColProgress].s) = t

\* row i has a status text that matches t when trimmed and lower-cased
HasStatusTrimmed(i, t) ==
    /\ ColProgress \in RawTasks.cols
    /\ RawTasks.rows[i][ColProgress].k = "str"
    /\ Lower(Strip(RawTasks.rows[i][ColProgress].s)) = t

\* row i has a due date before the instant today
DueBefore(i, today) ==
    /\ ColDueDate \in RawTasks.cols
    /\ RawTasks.rows[i][ColDueDate].k = "date"
    /\ RawTasks.rows[i][ColDueDate].d < today

\* C5: the overdue count is the number of rows whose due date is before
\* today and whose status is not completed: every row counted overdue has a
\* due date before today, no completed row is counted, and a row in progress
\* with a past due date is counted in in_progress and in overdue.
C5_OverdueCount ==
    kpi.shown =>
        LET late == {i \in TaskRows : DueBefore(i, kpi.today)}
            done == {i \in TaskRows : HasStatus(i, StrCompleted)}
            busy == {i \in TaskRows : HasStatus(i, StrInProgress)}
        IN /\ kpi.overdue = Cardinality(late \ done)
           /\ kpi.inprogress = Cardinality(busy)

\* a row in progress whose due date has passed is counted twice
C5_Witness ==
    /\ kpi.shown
    /\ kpi.total = 1
    /\ HasStatus(1, StrInProgress)
    /\ DueBefore(1, kpi.today)
    /\ kpi.inprogress = 1
    /\ kpi.overdue = 1

\* C6 as claimed: completed (and in_progress) count the rows whose status
\* matches after trimming surrounding whitespace and lower-casing, on the
\* KPI tab and in the report.
C6_CompletedAfterTrim ==
    LET done == Cardinality({i \in TaskRows : HasStatusTrimmed(i, StrCompleted)})
        busy == Cardinality({i \in TaskRows : HasStatusTrimmed(i, StrInProgress)})
    IN /\ kpi.shown => (kpi.completed = done /\ kpi.inprogress = busy)
       /\ pdf.built => (pdf.completed = done /\ pdf.inprogress = busy)

\* C6 as amended: completed (and in_progress) count the rows whose status
\* matches when lower-cased, without trimming.
C6_CompletedCaseInsensitive ==
    LET done == Cardinality({i \in TaskRows : HasStatus(i, StrCompleted)})
        busy == Cardinality({i \in TaskRows : HasStatus(i, StrInProgress)})
    IN /\ kpi.shown => (kpi.completed = done /\ kpi.inprogress = busy)
       /\ pdf.built => (pdf.completed = done /\ pdf.inprogress = busy)

\* "COMPLETED" is counted as completed on the KPI tab and in the report
C6_Witness ==
    /\ kpi.shown
    /\ pdf.built
    /\ kpi.total = 1
    /\ RawTasks.rows[1][ColProgress] = StrCell(RawCompletedUpper)
    /\ kpi.completed = 1
    /\ pdf.completed = 1

NotStartedLabels ==
    {StrNotStarted, <<"t","o"," ","d","o">>, <<"p","e","n","d","i","n","g">>,
     <<"t","o","d","o">>, <<>>}

\* C7 as claimed: not_started counts the rows whose status, lower-cased, is
\* "not started", "to do", "pending", "todo" or empty.
C7_NotStartedSynonyms ==
    LET idle == Cardinality({i \in TaskRows :
                    \E t \in NotStartedLabels : HasStatus(i, t)})
    IN /\ kpi.shown => kpi.notstarted = idle
       /\ pdf.built => pdf.notstarted = idle

\* C7 as amended: not_started counts the rows whose status, lower-cased, is
\* "not started"; no other label is counted.
C7_NotStartedExact ==
    LET idle == Cardinality({i \in TaskRows : HasStatus(i, StrNotStarted)})
    IN /\ kpi.shown => kpi.notstarted = idle
       /\ pdf.built => pdf.notstarted = idle

\* a "Not Started" row is counted on the KPI tab and in the report
C7_Witness ==
    /\ kpi.shown
    /\ pdf.built
    /\ kpi.total = 1
    /\ RawTasks.rows[1][ColProgress] = StrCell(RawNotStarted)
    /\ kpi.notstarted = 1
    /\ pdf.notstarted = 1

\* every status of the sheet is one of the three canonical labels
AllCanonical ==
    \A i \in TaskRows :
        \E t \in {StrCompleted, StrInProgress, StrNotStarted} : HasStatus(i, t)

\* C8: the status counts partition the rows: no row is counted in two of
\* completed, in_progress and not_started, their sum is at most total, and it
\* is total when every status is one of the three canonical labels.
C8_StatusPartition ==
    kpi.shown =>
        LET ser == ProgressSeries(df_main)
            done == StatusMask(ser, StrCompleted)
            busy == StatusMask(ser, StrInProgress)
            idle == StatusMask(ser, StrNotStarted)
            sum == kpi.completed + kpi.inprogress + kpi.notstarted
        IN /\ \A i \in DOMAIN ser :
                 ~(done[i] /\ busy[i]) /\ ~(done[i] /\ idle[i]) /\ ~(busy[i] /\ idle[i])
           /\ kpi.total = Len(RawTasks.rows)
           /\ sum <= kpi.total
           /\ AllCanonical => sum = kpi.total

\* two canonical rows, one completed and one in progress
C8_Witness ==
    /\ kpi.shown
    /\ AllCanonical
    /\ kpi.total = 2
    /\ kpi.completed = 1
    /\ kpi.inprogress = 1
    /\ kpi.notstarted = 0

\* C9: both gauge functions return a percentage between 0 and 100 for every
\* value with 0 <= value <= total, and 0, without dividing by zero, when
\* total is 0.
C9_GaugeBounded ==
    gaugeIn.fn # "none" =>
        /\ ~gaugeOut.err
        /\ gaugeOut.den > 0
        /\ 0 <= gaugeOut.num
        /\ gaugeOut.num <= 100 * gaugeOut.den
        /\ gaugeIn.total = 0 => gaugeOut.num = 0
        /\ gaugeIn.total > 0 =>
              gaugeOut.num * gaugeIn.total = 100 * gaugeIn.value * gaugeOut.den

\* a KPI gauge was asked for the percentage of 0 out of 0
C9_Witness ==
    /\ gaugeIn.fn = "create_colored_gauge"
    /\ gaugeIn.total = 0
    /\ gaugeOut = ZeroPct

\* the Task Breakdown table of the last run has a colour for every row
TableShown == kpi.shown /\ Len(html.colors) = Len(df_main.rows)

---------------------------------------------------------------------------
(* The average duration against the rows of the Tasks sheet on disk. *)

\* row i has a start date and a due date
BothDates(i) ==
    /\ {ColStartDate, ColDueDate} \subseteq RawTasks.cols
    /\ RawTasks.rows[i][ColStartDate].k = "date"
    /\ RawTasks.rows[i][ColDueDate].k = "date"

\* the whole days from the start date of row i to its due date
WholeDays(i) ==
    (RawTasks.rows[i][ColDueDate].d - RawTasks.rows[i][ColStartDate].d)
        \div TicksPerDay

RECURSIVE SumWholeDays(_)
SumWholeDays(S) ==
    IF S = {} THEN 0
    ELSE LET i == CHOOSE j \in S : TRUE
         IN WholeDays(i) + SumWholeDays(S \ {i})

\* text is the rendering of the mean of the whole days over the rows of S:
\* "N/A" when S is empty, else the tenths nearest to the mean
RendersMeanOver(text, S) ==
    IF S = {} THEN text.na
    ELSE /\ ~text.na
         /\ 2 * (Cardinality(S) * text.tenths - 10 * SumWholeDays(S))
                \in -Cardinality(S)..Cardinality(S)

\* C11: the average duration shown in the KPI tab and written to the PDF is
\* the mean of the whole days from start date to due date over exactly the
\* rows that have both dates; when no row has both dates it is "N/A".
C11_AvgDurationOverDatedRows ==
    LET dated == {i \in TaskRows : BothDates(i)}
    IN /\ kpi.shown => (insights.shown /\ RendersMeanOver(insights.avg, dated))
       /\ pdf.built => RendersMeanOver(pdf.avg, dated)

\* a report was built for two rows of which one has both dates, a day apart,
\* and the other has no start date
C11_Witness ==
    /\ kpi.shown
    /\ pdf.built
    /\ Cardinality(TaskRows) = 2
    /\ \E i \in TaskRows : \E j \in TaskRows :
          /\ BothDates(i)
          /\ WholeDays(i) = 1
          /\ ColStartDate \in RawTasks.cols
          /\ RawTasks.rows[j][ColStartDate].k = "na"
          /\ RawTasks.rows[j][ColDueDate].k = "date"
    /\ insights.avg = [na |-> FALSE, tenths |-> 10]
    /\ pdf.avg = insights.avg

---------------------------------------------------------------------------
(* The bucket dials against the rows of the Tasks sheet on disk. *)

\* the Tasks sheet on disk has rows, a bucket column and a status column
HasBuckets ==
    /\ ~IsEmpty(RawTasks)
    /\ {ColBucketName, ColProgress} \subseteq RawTasks.cols

\* C12: for a Tasks table with a bucket and a status column, the completion
\* of every bucket is 100 * (its rows with status completed) / (its rows), a
\* bucket without a completed row gets 0 and raises nothing, and every row
\* is counted in exactly one bucket (rows are in the same bucket exactly when
\* their bucket cells are equal).
C12_CompletionPerBucket ==
    (run # "idle" /\ HasBuckets) =>
        LET pct == insights.buckets.pct
            rows == insights.buckets.rows
        IN /\ exc # "KPIs"
           /\ insights.dials
           /\ DOMAIN rows = DOMAIN pct
           /\ \A key \in DOMAIN pct :
                 /\ rows[key] # {}
                 /\ rows[key] \subseteq TaskRows
                 /\ ~pct[key].err
                 /\ pct[key].den = Cardinality(rows[key])
                 /\ pct[key].num =
                        100 * Cardinality({i \in rows[key] :
                                              HasStatus(i, StrCompleted)})
           /\ \A i \in TaskRows :
                 Cardinality({key \in DOMAIN rows : i \in rows[key]}) = 1
           /\ \A i \in TaskRows : \A j \in TaskRows :
                 (\E key \in DOMAIN rows : {i, j} \subseteq rows[key])
                     <=> RawTasks.rows[i][ColBucketName]
                            = RawTasks.rows[j][ColBucketName]

\* three rows in two buckets: one bucket of two rows without a completed row
\* and one bucket of one completed row
C12_Witness ==
    /\ run = "rendered"
    /\ HasBuckets
    /\ insights.dials
    /\ \E a \in DOMAIN insights.buckets.pct :
       \E b \in DOMAIN insights.buckets.pct :
          /\ Cardinality(insights.buckets.rows[a]) = 2
          /\ insights.buckets.pct[a] = [err |-> FALSE, num |-> 0, den |-> 2]
          /\ insights.buckets.pct[b] = [err |-> FALSE, num |-> 100, den |-> 1]

---------------------------------------------------------------------------
(* Re-runs on cached data as the clock advances. *)

\* the rows of the Tasks sheet that are overdue at the instant today
OverdueRowsAt(today) ==
    {i \in TaskRows : DueBefore(i, today) /\ ~HasStatus(i, StrCompleted)}

\* C13: a re-run that hits the cache (the loader body does not run) reads
\* the clock anew: its overdue count is the count against an instant that is
\* not before the clock at the start of the re-run, so on unchanged data it
\* never falls from one run to the next and it includes every row that is
\* not completed and whose due date has passed by then.  (The workbook does
\* not change here, so a step that is no Tick is a re-run.)
C13_OverdueFollowsClock ==
    [][(~Tick /\ ~bodyRan' /\ kpi'.shown)
          => /\ clock <= kpi'.today
             /\ kpi'.today <= clock'
             /\ kpi'.overdue = Cardinality(OverdueRowsAt(kpi'.today))
             /\ OverdueRowsAt(clock) \subseteq OverdueRowsAt(kpi'.today)
             /\ kpi.shown => kpi.overdue <= kpi'.overdue]_vars

\* a re-run on cached data counted a row whose due date was the instant at
\* which the server started
C13_Witness ==
    /\ run = "rendered"
    /\ ~bodyRan
    /\ kpi.shown
    /\ kpi.total = 1
    /\ kpi.overdue = 1
    /\ kpi.today = 2
    /\ RawTasks.rows[1][ColDueDate] = DateCell(1)

---------------------------------------------------------------------------
(* The Export Report tab against the state of the session. *)

\* no task data can be loaded from the workbook on disk
NoFileLoaded == IsEmpty(RawTasks)

\* C14: the report is built and offered only in a run that has loaded a
\* non-empty Tasks table, and a run with no task data loaded shows the
\* "no data" warning and builds no report.
C14_ExportOnlyFromLoaded ==
    /\ pdf.built => (run = "rendered" /\ ~IsEmpty(df_main) /\ ~NoFileLoaded)
    /\ (run # "idle" /\ NoFileLoaded)
          => (~pdf.built /\ MsgNoExport \in messages)

---------------------------------------------------------------------------
(* The installations sheet: column detection, renaming and the summary. *)

\* the headers of the sheet as the loader sees them (stripped)
InstallHeaders == StripColumns(DropAllNa(raw_install)).cols

\* header i is the first header of its role
FirstOfRole(i) ==
    /\ RoleOfHeader(Lower(InstallHeaders[i])) # <<>>
    /\ \A j \in 1..(i - 1) :
          RoleOfHeader(Lower(InstallHeaders[j]))
              # RoleOfHeader(Lower(InstallHeaders[i]))

\* C15: the loader binds each role (Contractor, then Installed, then Sites,
\* by the keywords of the header) to the first header that matches it and
\* leaves every later header of the same role unbound, and the summary
\* binds its three columns to the first header that matches each.
C15_FirstMatchOnly ==
    (installRun # "idle" /\ ~IsEmptyInstall(raw_install)) =>
        /\ \A i \in DOMAIN InstallHeaders :
              IF FirstOfRole(i)
              THEN /\ InstallHeaders[i] \in DOMAIN colmap
                   /\ colmap[InstallHeaders[i]]
                          = RoleOfHeader(Lower(InstallHeaders[i]))
              ELSE InstallHeaders[i] \notin DOMAIN colmap
        /\ ~IsEmptyInstall(df_install) =>
              \A i \in DOMAIN df_install.cols :
                 (/\ IsSitesHeader(Lower(df_install.cols[i]))
                  /\ \A j \in 1..(i - 1) :
                        ~IsSitesHeader(Lower(df_install.cols[j])))
                     => DetectColumns(df_install).sites_col = df_install.cols[i]

\* C16: the table load_install_data returns has pairwise distinct column
\* names, and the loader raises on no sheet.
C16_DistinctColumnNames ==
    installRun # "idle" =>
        /\ ~(installRun = "crashed" /\ ~contractor_gauges.raised)
        /\ \A i \in DOMAIN df_install.cols : \A j \in DOMAIN df_install.cols :
              df_install.cols[i] = df_install.cols[j] => i = j
        /\ \A role \in {ColContractor, ColInstalled, ColSites} :
              Cardinality({c \in DOMAIN colmap : colmap[c] = role}) <= 1

\* C17: every row of the summary has numbers with
\* 0 <= Completed_Sites <= Total_Sites, and every contractor gauge drawn
\* from it shows a percentage from 0 to 100.
C17_CompletedWithinTotal ==
    installRun # "idle" =>
        /\ \A key \in DOMAIN summary_main.rows :
              LET rec == summary_main.rows[key]
              IN /\ rec.Completed_Sites.k = "num"
                 /\ rec.Total_Sites.k = "num"
                 /\ 0 <= rec.Completed_Sites.d
                 /\ rec.Completed_Sites.d <= rec.Total_Sites.d
        /\ ~contractor_gauges.raised
        /\ \A key \in DOMAIN contractor_gauges.pct :
              LET pct == contractor_gauges.pct[key]
              IN ~pct.err /\ 0 <= pct.num /\ pct.num <= 100 * pct.den

\* the status column is numeric, or each of its values that is not null is
\* a string of digits
NumericOrDigits(df, d) ==
    /\ HasColumn(df, d.status_col)
    /\ \/ df.dtypes[ColumnAt(df, d.status_col)] = "float64"
       \/ \A r \in DOMAIN df.rows :
             LET c == df.rows[r][ColumnAt(df, d.status_col)]
             IN IsNa(c) \/ IsDigits(StrOf(c))

\* C18: compute_install_summary takes the branch of the sums whenever the
\* status column is numeric or holds digit strings only, and the branch
\* that counts the completed rows otherwise.  (A sum that raises leaves the
\* summary of the except branch.)
C18_SumBranchCondition ==
    LET d == DetectColumns(df_install)
    IN (installRun # "idle" /\ ~IsEmptyInstall(df_install)
        /\ d.contractor_col # <<>>)
          => IF NumericOrDigits(df_install, d)
             THEN summary_main.branch \in {"sum", "fallback"}
             ELSE summary_main.branch = "count"

---------------------------------------------------------------------------
(* The report against the KPI tab. *)

\* C19: in a run that builds the report, its Completed, In Progress, Not
\* Started and Overdue counts are the counts of the KPI tab, whatever the
\* clock did between the two computations.
C19_PdfCountsEqualKpi ==
    (pdf.built /\ kpi.shown)
        => /\ pdf.total = kpi.total
           /\ pdf.completed = kpi.completed
           /\ pdf.inprogress = kpi.inprogress
           /\ pdf.notstarted = kpi.notstarted
           /\ pdf.overdue = kpi.overdue

=============================================================================
